---- MODULE Spec2Model ----
(***************************************************************************)
(* Model of the request factory (request[_m] for the five HTTP verbs, its  *)
(* interceptors handleSuccess / handleError) and of the router's route     *)
(* table.                                                                  *)
(*                                                                         *)
(* JavaScript values are tagged records: the tag t tells the type, so two  *)
(* values of different types are different records.  An object property    *)
(* that is absent reads as Undefined, as it does in JavaScript.            *)
(***************************************************************************)
EXTENDS Integers, Sequences, FiniteSets, TLC

VARIABLES
  calls,        \* one record per invocation of request[_m], in call order
  network,      \* requests in flight: records [call, config]
  now,          \* Date.now()
  storedToken,  \* localStorage.getItem("TOKEN")
  onLine,       \* window.navigator.onLine
  requested,    \* router: the path of the last navigation
  pending,      \* router: the location being resolved
  currentRoute  \* router: router.currentRoute

vars == <<calls, network, now, storedToken, onLine, requested, pending, currentRoute>>

requestVars == <<calls, network, now, storedToken, onLine>>
routerVars == <<requested, pending, currentRoute>>

\* ---------------------------------------------------------------- bounds
MaxCalls == 3
MaxTime == 1
MaxSegments == 3

\* ------------------------------------------------------ JavaScript values
Undefined == [t |-> "undefined"]
Null == [t |-> "null"]
Bool(b) == [t |-> "boolean", b |-> b]
Num(n) == [t |-> "number", n |-> n]
Str(s) == [t |-> "string", s |-> s]
Obj(id) == [t |-> "object", id |-> id]
FormData(id) == [t |-> "FormData", id |-> id]

\* ToBoolean: what `if (v)` and `v ? a : b` test
Truthy(v) ==
  CASE v.t \in {"undefined", "null"} -> FALSE
    [] v.t = "boolean" -> v.b
    [] v.t = "number" -> v.n # 0
    [] v.t = "string" -> v.s # ""
    [] OTHER -> TRUE

Nullish(v) == v.t \in {"undefined", "null"}

\* a ?? b
Coalesce(a, b) == IF Nullish(a) THEN b ELSE a

\* o?.k : Undefined when o is null or undefined or has no property k
OptGet(o, k) == IF Nullish(o) \/ k \notin DOMAIN o THEN Undefined ELSE o[k]

\* { ...a, ...b } : the keys of both, b's value on a key of both
Spread(a, b) ==
  [k \in DOMAIN a \cup DOMAIN b |-> IF k \in DOMAIN b THEN b[k] ELSE a[k]]

NoKeys == [k \in {} |-> Undefined]

\* -------------------------------------------------------- request factory
methods == <<"get", "post", "put", "patch", "delete">>

HttpMethod == {methods[i] : i \in 1..Len(methods)}

API_HOST == Str("https://api.host")

\* console lines
Line(s) == [fmt |-> "text", s |-> s]
ApiLine(url, status) == [fmt |-> "api: ${url}: ${status}", url |-> url, status |-> status]

\* step 4: the default headers, read at call time
DefaultHeaders(time, token) ==
  [lastOperaTime |-> Num(time),
   token |-> token,
   Accept |-> Str("application/json")]
  @@ ("Content-Type" :> Str("application/json; charset=utf-8"))

\* a faulty variant of MergeHeaders: the spreads in the other order, the defaults win
MergeHeadersDefaultsLast(headers, paramsHeaders) ==
  Spread(IF Truthy(paramsHeaders) THEN paramsHeaders.h ELSE NoKeys, headers)

\* step 5: headers: { ...headers, ...(params.headers || {}) }
MergeHeaders(headers, paramsHeaders) ==
  Spread(headers, IF Truthy(paramsHeaders) THEN paramsHeaders.h ELSE NoKeys)

\* a faulty variant of AxiosConfig: no branch for get, the payload is always the body
AxiosConfigBodyOnly(m, params, headers) ==
  [method |-> m,
   url |-> params.url,
   headers |-> Spread(headers, IF Truthy(params.headers) THEN params.headers.h ELSE NoKeys),
   responseType |-> params.responseType,
   params |-> Undefined,
   data |-> params.data]

\* steps 5 and 6: the request configuration
AxiosConfig(m, params, headers) ==
  LET base == [method |-> m,
               url |-> params.url,
               headers |-> MergeHeaders(headers, params.headers),
               responseType |-> params.responseType,
               params |-> Undefined,
               data |-> Undefined]
      data == params.data
  IN  IF Truthy(data)
      THEN IF m = "get"
           THEN [base EXCEPT !.params = data]
           ELSE IF data.t = "FormData"
                THEN [base EXCEPT !.data = data]
                ELSE [base EXCEPT !.data = data]
      ELSE base

\* step 1: params = { ...params, responseType: params.responseType || "json" }
MergeParams(params) ==
  [params EXCEPT !.responseType = IF Truthy(@) THEN @ ELSE Str("json")]

\* step 2: const { url, data, filter = true, responseType, timeout } = params
\* and step 3: the axios instance of this call
Scope(params) ==
  [params |-> params,
   url |-> params.url,
   filter |-> IF params.filter = Undefined THEN Bool(TRUE) ELSE params.filter,
   instance |-> [baseURL |-> Coalesce(params.baseUrl, API_HOST),
                 timeout |-> Coalesce(params.timeout, Num(10000))]]

\* the request interceptor passes the configuration on
RequestInterceptor(config) == config

\* what a handler hands back to the promise chain
Value(v) == [kind |-> "value", v |-> v]
Rejection(v) == [kind |-> "rejection", v |-> v]
NoReturn == [kind |-> "none"]

\* a faulty variant of handleSuccess: result?.data || result, which drops a falsy data
handleSuccessOr(response, filter) ==
  IF Truthy(response.data)
  THEN LET code == OptGet(response.data, "code")
           msg == OptGet(response.data, "msg")
           result == OptGet(response.data, "result")
           data == OptGet(result, "data")
       IN  [log |-> IF code # Num(0) THEN <<Line(msg)>> ELSE <<>>,
            ret |-> Value(IF Truthy(filter)
                          THEN IF Truthy(data) THEN data ELSE result
                          ELSE response.data)]
  ELSE [log |-> <<Line(Str("incorrect data format"))>>,
        ret |-> Value(response.data)]

\* a faulty variant of handleSuccess: a non-zero code rejects with the envelope
handleSuccessRejectOnCode(response, filter) ==
  IF Truthy(response.data)
  THEN LET code == OptGet(response.data, "code")
           msg == OptGet(response.data, "msg")
           result == OptGet(response.data, "result")
       IN  IF code # Num(0)
           THEN [log |-> <<Line(msg)>>, ret |-> Rejection(response.data)]
           ELSE [log |-> <<>>,
                 ret |-> Value(IF Truthy(filter)
                               THEN Coalesce(OptGet(result, "data"), result)
                               ELSE response.data)]
  ELSE [log |-> <<Line(Str("incorrect data format"))>>,
        ret |-> Value(response.data)]

\* step 8: the response interceptor of a successful response
handleSuccess(response, filter) ==
  IF Truthy(response.data)
  THEN LET code == OptGet(response.data, "code")
           msg == OptGet(response.data, "msg")
           result == OptGet(response.data, "result")
       IN  [log |-> IF code # Num(0) THEN <<Line(msg)>> ELSE <<>>,
            ret |-> Value(IF Truthy(filter)
                          THEN Coalesce(OptGet(result, "data"), result)
                          ELSE response.data)]
  ELSE [log |-> <<Line(Str("incorrect data format"))>>,
        ret |-> Value(response.data)]

ErrorLog(err, requestParams, online) ==
  (IF Truthy(err.response)
   THEN <<ApiLine(requestParams.url, err.response.status)>> ELSE <<>>)
  \o (IF err.isError /\ Truthy(err.message) THEN <<Line(err.message)>> ELSE <<>>)
  \o (IF ~online THEN <<Line(Str("netwrok error"))>> ELSE <<>>)

\* a faulty variant of handleError: the handler logs and returns nothing, so the chain
\* goes on with undefined
handleErrorSwallow(err, requestParams, online) ==
  [log |-> ErrorLog(err, requestParams, online), ret |-> Value(Undefined)]

\* a faulty variant of handleError: rejects with a new error made from the message
handleErrorWrap(err, requestParams, online) ==
  [log |-> ErrorLog(err, requestParams, online),
   ret |-> Rejection([t |-> "error", id |-> 0, config |-> err.config, isError |-> TRUE,
                      response |-> Undefined, message |-> err.message])]

\* a faulty variant of handleError: no line for the offline case
handleErrorNoOffline(err, requestParams, online) ==
  [log |-> ErrorLog(err, requestParams, TRUE), ret |-> Rejection(err)]

\* a faulty variant of handleError: the failed request is sent again
handleErrorRetry(err, requestParams, online) ==
  [log |-> ErrorLog(err, requestParams, online),
   ret |-> [kind |-> "request", v |-> err.config]]

\* step 9: the response interceptor of a failed request
handleError(err, requestParams, online) ==
  [log |-> ErrorLog(err, requestParams, online), ret |-> Rejection(err)]

\* a faulty variant of ScopeOf: the variables are the module's, those of the latest call
ScopeOfLatest(cs, c) == cs[Len(cs)].scope

\* the variables a call's interceptors close over: those of that call
ScopeOf(cs, c) == cs[c].scope

\* ------------------------------------------------------------ the inputs
Urls == {"/a"}
Payloads == {Undefined, Obj("payload"), FormData("form")}
Filters == {Undefined, Bool(TRUE), Bool(FALSE)}
Tokens == {Null, Str("tokA")}

CallerKeys == {"token", "lastOperaTime", "X-Trace"}

CallerValue(k) ==
  CASE k = "token" -> Str("callerToken")
    [] k = "lastOperaTime" -> Num(0 - 1)
    [] OTHER -> Str("trace")

\* params.headers: omitted, or an object with any of the caller's keys
CallerHeaders ==
  {Undefined} \cup
  {[t |-> "object", h |-> [k \in ks |-> CallerValue(k)]] : ks \in SUBSET CallerKeys}

RequestParams(urls, payloads, filters, headers) ==
  [url : urls, baseUrl : {Undefined}, data : payloads, filter : filters,
   responseType : {Undefined}, headers : headers, timeout : {Undefined}]

AllParams == RequestParams(Urls, Payloads, Filters, CallerHeaders)

\* the envelope { code, msg, result } of the backing API
Envelope(code, msg, result) ==
  [t |-> "object", code |-> Num(code), msg |-> Str(msg), result |-> result]

Result(data) == [t |-> "object", lastOperaTime |-> Num(0), data |-> data]

Results ==
  {Null, Undefined} \cup {Result(d) : d \in {Undefined, Null, Num(0), Obj("rows")}}

Envelopes == {Envelope(code, "msg", r) : code \in {0, 1}, r \in Results}

\* response.data: an envelope, or an empty body
Bodies == Envelopes \cup {Str("")}

\* the error of a failed request: with or without an HTTP response, with or
\* without a message, an Error or another thrown value; id tells the objects apart
AxiosErrors(c, config) ==
  [t : {"error"}, id : {c}, config : {config}, isError : BOOLEAN,
   response : {Undefined, [t |-> "object", status |-> 500]},
   message : {Str(""), Str("Network Error")}]

\* ----------------------------------------------------------- the actions
\* request[_m](params), up to the return of instance.request(axiosConfig)
Request(limit, ms, paramSet) ==
  /\ Len(calls) < limit
  /\ \E m \in ms, p \in paramSet :
       LET params == MergeParams(p)
           config == AxiosConfig(m, params, DefaultHeaders(now, storedToken))
           c == Len(calls) + 1
       IN  /\ calls' = Append(calls,
                 [m |-> m, params |-> p, scope |-> Scope(params), config |-> config,
                  pc |-> "inflight", arrived |-> Undefined, ret |-> NoReturn,
                  promise |-> [state |-> "pending", value |-> Undefined],
                  sent |-> 1, log |-> <<>>])
           /\ network' = network \cup {[call |-> c, config |-> RequestInterceptor(config)]}
  /\ UNCHANGED <<now, storedToken, onLine, routerVars>>

\* a response interceptor has run on what arrived for req: its log lines are
\* printed and what it returned enters the promise chain (a returned promise
\* of another request keeps the call in flight)
Handled(req, arrived, h) ==
  LET c == req.call
      again == h.ret.kind = "request"
  IN  /\ calls' = [calls EXCEPT ![c].arrived = arrived,
                                ![c].log = @ \o h.log,
                                ![c].ret = h.ret,
                                ![c].pc = IF again THEN "inflight" ELSE "handled",
                                ![c].sent = IF again THEN @ + 1 ELSE @]
      /\ network' = (network \ {req})
                      \cup (IF again THEN {[call |-> c, config |-> h.ret.v]} ELSE {})

\* the transport delivers a successful response
Respond(bodies) ==
  /\ \E req \in network, body \in bodies :
       LET response == [data |-> body, status |-> 200]
       IN  Handled(req, [kind |-> "response", response |-> response],
                   handleSuccess(response, ScopeOf(calls, req.call).filter))
  /\ UNCHANGED <<now, storedToken, onLine, routerVars>>

\* the transport fails: network error, timeout or HTTP error status
Fail(shapes) ==
  /\ \E req \in network :
       \E err \in {e \in AxiosErrors(req.call, req.config) : <<e.isError, Truthy(e.response), Truthy(e.message)>> \in shapes} :
         Handled(req, [kind |-> "error", err |-> err],
                 handleError(err, ScopeOf(calls, req.call).params, onLine))
  /\ UNCHANGED <<now, storedToken, onLine, routerVars>>

\* the promise returned to the caller settles with what the chain produced
Settle ==
  /\ \E c \in 1..Len(calls) :
       /\ calls[c].pc = "handled"
       /\ calls' = [calls EXCEPT
             ![c].pc = "settled",
             ![c].promise = [state |-> IF calls[c].ret.kind = "value"
                                       THEN "fulfilled" ELSE "rejected",
                             value |-> calls[c].ret.v]]
  /\ UNCHANGED <<network, now, storedToken, onLine, routerVars>>

\* the environment: the clock, local storage, the connection
Tick ==
  /\ now < MaxTime
  /\ now' = now + 1
  /\ UNCHANGED <<calls, network, storedToken, onLine, routerVars>>

SetToken ==
  /\ \E tok \in Tokens \ {storedToken} : storedToken' = tok
  /\ UNCHANGED <<calls, network, now, onLine, routerVars>>

GoOffline ==
  /\ onLine
  /\ onLine' = FALSE
  /\ UNCHANGED <<calls, network, now, storedToken, routerVars>>

GoOnline ==
  /\ ~onLine
  /\ onLine' = TRUE
  /\ UNCHANGED <<calls, network, now, storedToken, routerVars>>

AllShapes == BOOLEAN \X BOOLEAN \X BOOLEAN

InitRequest ==
  /\ calls = <<>>
  /\ network = {}
  /\ now = 0
  /\ storedToken = Null
  /\ onLine = TRUE

InitRouter ==
  /\ requested = <<>>
  /\ pending = <<>>
  /\ currentRoute = <<>>

Init == InitRequest /\ InitRouter

\* one invocation, over the whole range of its inputs
Next ==
  \/ Request(1, HttpMethod, AllParams)
  \/ Respond(Bodies)
  \/ Fail(AllShapes)
  \/ Settle
  \/ Tick
  \/ SetToken
  \/ GoOffline
  \/ GoOnline

Spec == Init /\ [][Next]_vars

\* several invocations in flight at once
ConcurrentParams ==
  RequestParams(Urls, {Obj("payload")}, {Bool(TRUE), Bool(FALSE)}, {Undefined})

ConcurrentBodies == {Envelope(code, "msg", Result(Obj("rows"))) : code \in {0, 1}}

NextConcurrent ==
  \/ Request(MaxCalls, {"get", "post"}, ConcurrentParams)
  \/ Respond(ConcurrentBodies)
  \/ Fail({<<TRUE, TRUE, TRUE>>})
  \/ Settle

SpecConcurrent == Init /\ [][NextConcurrent]_vars

\* ----------------------------------------------------------------- router
\* A path is the sequence of its segments: "/" is <<"">>, "/about" is
\* <<"about">>, "/about/" is <<"about", "">>, "/x/about" is <<"x", "about">>.
Segments == {"", "about", "About", "404", "x"}

Paths == UNION {[1..n -> Segments] : n \in 1..MaxSegments}

Static(value) == [type |-> "static", value |-> value, regexp |-> ""]
Param(name, regexp) == [type |-> "param", value |-> name, regexp |-> regexp]

NoRedirect == <<>>

\* a faulty variant of routes: the catch-all without its custom pattern, "/:pathMatch"
routesPlainParam ==
  <<[path |-> <<Static("")>>, name |-> "home", redirect |-> NoRedirect],
    [path |-> <<Static("about")>>, name |-> "about", redirect |-> NoRedirect],
    [path |-> <<Static("404")>>, name |-> "not-found", redirect |-> NoRedirect],
    [path |-> <<Param("pathMatch", "")>>, name |-> "", redirect |-> <<"404">>]>>

\* the route table; a record's path is the token of each of its segments
routes ==
  <<[path |-> <<Static("")>>, name |-> "home", redirect |-> NoRedirect],
    [path |-> <<Static("about")>>, name |-> "about", redirect |-> NoRedirect],
    [path |-> <<Static("404")>>, name |-> "not-found", redirect |-> NoRedirect],
    [path |-> <<Param("pathMatch", ".*")>>, name |-> "", redirect |-> <<"404">>]>>

\* createRouter is given no `sensitive`: the patterns carry the flag i
Lower(s) == IF s = "About" THEN "about" ELSE s

\* createRouter is given no `strict`: the pattern of a record is its segments,
\* each behind a slash, then an optional trailing slash, then the end
RECURSIVE MatchFrom(_, _)
MatchFrom(tokens, path) ==
  IF tokens = <<>>
  THEN path = <<>> \/ path = <<"">>
  ELSE LET token == Head(tokens)
       IN  IF path = <<>> THEN FALSE
           ELSE IF token.type = "static"
           THEN Lower(Head(path)) = Lower(token.value) /\ MatchFrom(Tail(tokens), Tail(path))
           ELSE IF token.regexp = ".*"
           THEN \E k \in 1..Len(path) :
                  MatchFrom(Tail(tokens), SubSeq(path, k + 1, Len(path)))
           ELSE Head(path) # "" /\ MatchFrom(Tail(tokens), Tail(path))

\* the rank of a record: a static segment above a parameter, a parameter
\* whose pattern is the wildcard below every other
RECURSIVE Score(_)
Score(tokens) ==
  IF tokens = <<>> THEN 0
  ELSE LET token == Head(tokens)
       IN  (IF token.type = "static" THEN 80
            ELSE IF token.regexp = ".*" THEN 20
            ELSE IF token.regexp # "" THEN 70 ELSE 60)
           + Score(Tail(tokens))

NoMatch == 0

\* router.resolve: the best-ranked record whose pattern matches, the first
\* declared among equals
Resolve(path) ==
  LET matching == {i \in 1..Len(routes) : MatchFrom(routes[i].path, path)}
  IN  IF matching = {} THEN NoMatch
      ELSE CHOOSE i \in matching :
             \A j \in matching :
               \/ Score(routes[i].path) > Score(routes[j].path)
               \/ Score(routes[i].path) = Score(routes[j].path) /\ i <= j

Location(path, from) ==
  LET i == Resolve(path)
  IN  [path |-> path,
       matched |-> i,
       name |-> IF i = NoMatch THEN "" ELSE routes[i].name,
       redirect |-> IF i = NoMatch THEN NoRedirect ELSE routes[i].redirect,
       redirectedFrom |-> from]

\* router.push(path)
Push ==
  /\ pending = <<>>
  /\ \E path \in Paths :
       /\ requested' = path
       /\ pending' = <<Location(path, <<>>)>>
  /\ UNCHANGED <<currentRoute, requestVars>>

\* the matched record redirects: the navigation goes on to its target
FollowRedirect ==
  /\ pending # <<>>
  /\ pending[1].redirect # NoRedirect
  /\ pending' = <<Location(pending[1].redirect,
                           IF pending[1].redirectedFrom = <<>>
                           THEN pending[1].path ELSE pending[1].redirectedFrom)>>
  /\ UNCHANGED <<requested, currentRoute, requestVars>>

\* the navigation is confirmed
Finalize ==
  /\ pending # <<>>
  /\ pending[1].redirect = NoRedirect
  /\ currentRoute' = pending
  /\ pending' = <<>>
  /\ UNCHANGED <<requested, requestVars>>

NextRouter == Push \/ FollowRedirect \/ Finalize

SpecRouter == Init /\ [][NextRouter]_vars

\* ----------------------------------------------------------------- claims
Calls == 1..Len(calls)

Arrived(c, kind) == calls[c].pc # "inflight" /\ calls[c].arrived.kind = kind

\* the response body of call c is an envelope
HasEnvelope(c) == Arrived(c, "response") /\ calls[c].arrived.response.data.t = "object"

Body(c) == calls[c].arrived.response.data

\* the filter flag of call c is true, or the caller omitted it
FilterOn(c) == calls[c].params.filter \in {Undefined, Bool(TRUE)}

\* result.data, or result when result.data is null or undefined
Unwrapped(body) ==
  IF body.result \in {Null, Undefined} THEN body.result
  ELSE IF body.result.data \in {Null, Undefined} THEN body.result
  ELSE body.result.data

\* C1: for every verb, a call made with a payload sends it as the query
\* parameters and with no body when the verb is get, and as the body and with
\* no query parameters when the verb is one of the other four.
C1_PayloadRouting ==
  /\ \A c \in Calls :
       LET payload == calls[c].params.data
           config == calls[c].config
       IN  payload # Undefined =>
             IF calls[c].m = "get"
             THEN config.params = payload /\ config.data = Undefined
             ELSE config.data = payload /\ config.params = Undefined
  /\ \A req \in network : req.config = calls[req.call].config

C1_Witness ==
  \E c \in Calls :
    /\ calls[c].m = "get"
    /\ calls[c].params.data = Obj("payload")
    /\ [call |-> c, config |-> calls[c].config] \in network
    /\ calls[c].config.params = Obj("payload")

\* C2: a successful response with an envelope resolves the promise to
\* result.data, or to result when result.data is null or undefined, when the
\* filter flag is true or omitted, and to the raw response body when it is false.
C2_FilterUnwraps ==
  \A c \in Calls :
    (HasEnvelope(c) /\ calls[c].pc = "settled") =>
      /\ calls[c].promise.state = "fulfilled"
      /\ calls[c].promise.value = IF FilterOn(c) THEN Unwrapped(Body(c)) ELSE Body(c)

C2_Witness ==
  \E c \in Calls :
    /\ calls[c].pc = "settled"
    /\ HasEnvelope(c)
    /\ calls[c].params.filter = Undefined
    /\ Body(c).result = Result(Num(0))
    /\ calls[c].promise = [state |-> "fulfilled", value |-> Num(0)]

\* C3: whenever the transport fails, the promise is rejected, never resolved,
\* and its rejection value is the error object the transport produced.
C3_FailureRejects ==
  \A c \in Calls :
    Arrived(c, "error") =>
      /\ calls[c].promise.state # "fulfilled"
      /\ calls[c].ret = [kind |-> "rejection", v |-> calls[c].arrived.err]
      /\ calls[c].pc = "settled" =>
            calls[c].promise = [state |-> "rejected", value |-> calls[c].arrived.err]

C3_Witness ==
  \E c \in Calls :
    /\ calls[c].pc = "settled"
    /\ Arrived(c, "error")
    /\ calls[c].arrived.err.response = Undefined
    /\ calls[c].arrived.err.message = Str("Network Error")
    /\ calls[c].promise.state = "rejected"

\* C4: a successful response whose envelope code is not zero logs the
\* envelope's msg while the promise is still pending and then resolves it, with
\* the value the filter flag selects, as for a zero code (the raw body being
\* the envelope as received).
C4_NonZeroCodeResolves ==
  \A c \in Calls :
    (HasEnvelope(c) /\ Body(c).code # Num(0)) =>
      /\ calls[c].log = <<[fmt |-> "text", s |-> Body(c).msg]>>
      /\ calls[c].ret.kind = "value"
      /\ calls[c].pc = "handled" => calls[c].promise.state = "pending"
      /\ calls[c].pc = "settled" =>
            /\ calls[c].promise.state = "fulfilled"
            /\ LET zero == [Body(c) EXCEPT !.code = Num(0)]
                   value == calls[c].promise.value
               IN  IF FilterOn(c)
                   THEN value = Unwrapped(zero)
                   ELSE value = Body(c) /\ [value EXCEPT !.code = Num(0)] = zero

C4_Witness ==
  \E c \in Calls :
    /\ calls[c].pc = "settled"
    /\ HasEnvelope(c)
    /\ Body(c).code = Num(1)
    /\ calls[c].log # <<>>
    /\ calls[c].promise.state = "fulfilled"

\* C5, as stated: every failure, a non-zero application code as well as a
\* transport failure, reaches the caller as a rejected promise carrying the
\* original error.
C5_Original ==
  \A c \in Calls :
    calls[c].pc = "settled" =>
      /\ Arrived(c, "error") =>
            calls[c].promise = [state |-> "rejected", value |-> calls[c].arrived.err]
      /\ (HasEnvelope(c) /\ Body(c).code # Num(0)) =>
            calls[c].promise.state = "rejected"

\* C5, amended: every transport failure, the browser online or offline,
\* reaches the caller as a rejected promise carrying the original error
\* unchanged; a response with a non-zero application code does not: its promise
\* is fulfilled, and a promise is rejected only on a transport failure.
C5_Amended ==
  \A c \in Calls :
    calls[c].pc = "settled" =>
      /\ calls[c].promise.state = "rejected" <=> Arrived(c, "error")
      /\ calls[c].promise.state = "rejected" =>
            calls[c].promise.value = calls[c].arrived.err
      /\ (HasEnvelope(c) /\ Body(c).code # Num(0)) =>
            calls[c].promise.state = "fulfilled"

C5_Witness ==
  \E c \in Calls :
    /\ calls[c].pc = "settled"
    /\ Arrived(c, "error")
    /\ calls[c].log # <<>>
    /\ [fmt |-> "text", s |-> Str("netwrok error")] = calls[c].log[Len(calls[c].log)]
    /\ calls[c].promise.state = "rejected"
    /\ calls[c].promise.value.id = c

\* C7, as stated: every transport failure has at least one console error line
\* logged before the promise rejects, whatever the shape of the error and
\* whether the browser is online or offline.
C7_Original ==
  \A c \in Calls : Arrived(c, "error") => calls[c].log # <<>>

\* the step in which handleError runs for call c
ErrorHandled(c) ==
  /\ calls[c].pc = "inflight"
  /\ calls'[c].pc = "handled"
  /\ calls'[c].arrived.kind = "error"

\* C7, amended: a transport failure has at least one console error line logged
\* before the promise rejects exactly when the error carries an HTTP response,
\* or is an Error with a non-empty message, or the browser is offline when the
\* failure is handled; an error with none of the three is rejected with nothing
\* logged.
C7_Amended ==
  [][\A c \in Calls :
       ErrorHandled(c) =>
         LET err == calls'[c].arrived.err
         IN  /\ calls'[c].promise.state = "pending"
             /\ calls'[c].ret.kind = "rejection"
             /\ calls'[c].log # <<>> <=>
                   \/ err.response # Undefined
                   \/ err.isError /\ err.message # Str("")
                   \/ ~onLine]_vars

C7_Witness ==
  \E c \in Calls :
    /\ calls[c].pc = "handled"
    /\ Arrived(c, "error")
    /\ calls[c].arrived.err.response = Undefined
    /\ calls[c].arrived.err.message = Str("")
    /\ calls[c].log = <<[fmt |-> "text", s |-> Str("netwrok error")]>>
    /\ calls[c].promise.state = "pending"

\* the step in which request[_m] is called
Requested == Len(calls') = Len(calls) + 1

\* C10: the headers of an outgoing request are the four defaults
\* (lastOperaTime the client time at call time, token the stored TOKEN at call
\* time, Accept, Content-Type) overlaid with the caller's headers: the caller's
\* value on a key of both, every other default unchanged.
C10_HeaderOverlay ==
  [][Requested =>
       LET call == calls'[Len(calls')]
           sent == call.config.headers
           given == call.params.headers
           own == IF given = Undefined THEN {} ELSE DOMAIN given.h
           defaults == {"lastOperaTime", "token", "Accept", "Content-Type"}
       IN  /\ DOMAIN sent = defaults \cup own
           /\ \A k \in own : sent[k] = given.h[k]
           /\ "lastOperaTime" \notin own => sent["lastOperaTime"] = [t |-> "number", n |-> now]
           /\ "token" \notin own => sent["token"] = storedToken
           /\ "Accept" \notin own => sent["Accept"] = Str("application/json")
           /\ "Content-Type" \notin own =>
                 sent["Content-Type"] = Str("application/json; charset=utf-8")]_vars

C10_Witness ==
  \E c \in Calls :
    /\ calls[c].params.headers # Undefined
    /\ DOMAIN calls[c].params.headers.h = {"token", "X-Trace"}
    /\ calls[c].config.headers["token"] = Str("callerToken")
    /\ calls[c].config.headers["lastOperaTime"] = Num(1)
    /\ storedToken = Str("tokA")
    /\ calls[c].pc = "inflight"

\* C8: each call issues exactly one network request and its promise settles
\* exactly once: nothing is sent again after a failure or a non-zero code, and
\* calls with identical parameters each send their own request.
C8_OneRequestOneSettlement ==
  /\ [](\A c \in Calls :
          /\ calls[c].sent = 1
          /\ Cardinality({req \in network : req.call = c})
               = IF calls[c].pc = "inflight" THEN 1 ELSE 0
          /\ calls[c].pc # "settled" <=> calls[c].promise.state = "pending")
  /\ [][\A c \in Calls :
          /\ calls[c].pc # "inflight" => calls'[c].pc # "inflight"
          /\ calls[c].pc = "settled" => calls'[c] = calls[c]]_vars

C8_Witness ==
  \E c, d \in Calls :
    /\ c < d
    /\ calls[c].m = calls[d].m
    /\ calls[c].params = calls[d].params
    /\ calls[c].pc = "settled" /\ Arrived(c, "error")
    /\ calls[d].pc = "settled" /\ HasEnvelope(d) /\ Body(d).code = Num(1)
    /\ calls[c].sent = 1 /\ calls[d].sent = 1
    /\ network = {}

\* C9: with several calls in flight and their responses arriving in any order,
\* what a call's promise settles with is determined by that call's own
\* parameters and its own response or error: two calls with the same verb and
\* parameters that receive the same response get the same result, whatever the
\* other calls are, and a failed call is rejected with its own error.
C9_NoInterference ==
  /\ \A c, d \in Calls :
       (/\ calls[c].m = calls[d].m
        /\ calls[c].params = calls[d].params
        /\ Arrived(c, "response") /\ Arrived(d, "response")
        /\ calls[c].arrived = calls[d].arrived) =>
         /\ calls[c].ret = calls[d].ret
         /\ calls[c].log = calls[d].log
  /\ \A c \in Calls :
       /\ Arrived(c, "error") =>
            calls[c].ret.v.id = c /\ calls[c].ret.v.config = calls[c].config
       /\ calls[c].pc = "settled" => calls[c].promise.value = calls[c].ret.v

C9_Witness ==
  \E c, d \in Calls :
    /\ c < d
    /\ calls[c].params.filter # calls[d].params.filter
    /\ calls[c].pc = "inflight"
    /\ calls[d].pc = "settled"
    /\ HasEnvelope(d)
    /\ \E e \in Calls : e > d /\ Arrived(e, "error")

\* a navigation has ended and the router shows its outcome
Arrival == pending = <<>> /\ currentRoute # <<>>

\* the declared paths "/", "/about", "/404", and the route each declares
DeclaredPaths == {<<"">>, <<"about">>, <<"404">>}

DeclaredName(path) ==
  CASE path[1] = "" -> "home"
    [] path[1] \in {"about", "About"} -> "about"
    [] path[1] = "404" -> "not-found"
    [] OTHER -> ""

\* C6, as stated: a path that is not one of "/", "/about", "/404" ends at the
\* route not-found (path "/404"); a declared path ends at its route and is not
\* redirected.
C6_Original ==
  Arrival =>
    IF requested \in DeclaredPaths
    THEN /\ currentRoute[1].name = DeclaredName(requested)
         /\ currentRoute[1].path = requested
         /\ currentRoute[1].redirectedFrom = <<>>
    ELSE /\ currentRoute[1].name = "not-found"
         /\ currentRoute[1].path = <<"404">>

\* a declared path, in any letter case, with or without one trailing slash
MatchesDeclared(path) ==
  /\ DeclaredName(path) # ""
  /\ Len(path) = 1 \/ (Len(path) = 2 /\ path[2] = "")

\* C6, amended: a path that matches none of the declared routes "/", "/about",
\* "/404", the match ignoring letter case and one trailing slash, ends at the
\* route not-found (path "/404"), paths with several segments included; a path
\* that matches a declared route ends at that route and is not redirected.
C6_Amended ==
  Arrival =>
    IF MatchesDeclared(requested)
    THEN /\ currentRoute[1].name = DeclaredName(requested)
         /\ currentRoute[1].path = requested
         /\ currentRoute[1].redirectedFrom = <<>>
    ELSE /\ currentRoute[1].name = "not-found"
         /\ currentRoute[1].path = <<"404">>
         /\ currentRoute[1].redirectedFrom = requested

C6_Witness ==
  /\ Arrival
  /\ requested = <<"x", "about", "x">>
  /\ currentRoute[1].name = "not-found"
  /\ currentRoute[1].redirectedFrom = requested

====
